---- MODULE Spec2Model ----
(***************************************************************************)
(* Inventory / Product data model of src/app.py: the three product        *)
(* variants, the insertion-ordered id -> product map of Inventory, its     *)
(* stock operations, the expiry sweep and the JSON persistence codec.      *)
(*                                                                         *)
(* Python dicts keep insertion order, so the map is a sequence of product  *)
(* objects with pairwise distinct ids.  Strings that the code takes apart  *)
(* (the expiry date text) are sequences of one-character strings.  Prices  *)
(* are integers (the arithmetic of the code is exact on them).             *)
(***************************************************************************)
EXTENDS Integers, Sequences, FiniteSets, TLC

VARIABLES products, file, saved, today, last

vars == <<products, file, saved, today, last>>

\* ---------------------------------------------------------------- bounds
MaxQty == 3
MaxAmount == 2
MaxTicks == 1
MaxFileLen == 2

\* ---------------------------------------------------------------- dates
DigitChars == <<"0", "1", "2", "3", "4", "5", "6", "7", "8", "9">>

IsDigit(c) == \E i \in 1..10 : DigitChars[i] = c

DigitVal(c) == (CHOOSE i \in 1..10 : DigitChars[i] = c) - 1

RECURSIVE Pow10(_)
Pow10(n) == IF n = 0 THEN 1 ELSE 10 * Pow10(n - 1)

\* "%0wd" % n
Pad(n, w) == [i \in 1..w |-> DigitChars[((n \div Pow10(w - i)) % 10) + 1]]

RECURSIVE NumVal(_)
NumVal(s) == IF Len(s) = 0 THEN 0
             ELSE 10 * NumVal(SubSeq(s, 1, Len(s) - 1)) + DigitVal(s[Len(s)])

IsLeap(y) == (y % 4 = 0) /\ ((y % 100 # 0) \/ (y % 400 = 0))

DaysInMonth(y, m) ==
    IF m = 2 THEN (IF IsLeap(y) THEN 29 ELSE 28)
    ELSE IF m \in {4, 6, 9, 11} THEN 30 ELSE 31

\* datetime.date comparison: a date is <<year, month, day>>
DateGreater(a, b) ==
    \/ a[1] > b[1]
    \/ a[1] = b[1] /\ a[2] > b[2]
    \/ a[1] = b[1] /\ a[2] = b[2] /\ a[3] > b[3]

\* mutant of isoformat: day first, "%02d-%02d-%04d"
isoformat_day_first(d) ==
    Pad(d[3], 2) \o <<"-">> \o Pad(d[2], 2) \o <<"-">> \o Pad(d[1], 4)

\* date.isoformat(): "%04d-%02d-%02d"
isoformat(d) == Pad(d[1], 4) \o <<"-">> \o Pad(d[2], 2) \o <<"-">> \o Pad(d[3], 2)

Dashes(s) == {i \in 1..Len(s) : s[i] = "-"}

AllDigits(s) == \A i \in 1..Len(s) : IsDigit(s[i])

\* The three fields of a text matched against "%Y-%m-%d".
DateParts(s) ==
    LET d1 == CHOOSE i \in Dashes(s) : \A j \in Dashes(s) : i <= j
        d2 == CHOOSE i \in Dashes(s) : \A j \in Dashes(s) : j <= i
    IN  <<SubSeq(s, 1, d1 - 1), SubSeq(s, d1 + 1, d2 - 1), SubSeq(s, d2 + 1, Len(s))>>

\* datetime.strptime(s, "%Y-%m-%d") succeeds: %Y is four digits, %m and %d
\* one or two digits in range, and the result is a date of the calendar.
CanParse(s) ==
    /\ Cardinality(Dashes(s)) = 2
    /\ LET p == DateParts(s) IN
        /\ Len(p[1]) = 4 /\ AllDigits(p[1])
        /\ Len(p[2]) \in {1, 2} /\ AllDigits(p[2])
        /\ Len(p[3]) \in {1, 2} /\ AllDigits(p[3])
        /\ NumVal(p[1]) >= 1
        /\ NumVal(p[2]) \in 1..12
        /\ NumVal(p[3]) \in 1..DaysInMonth(NumVal(p[1]), NumVal(p[2]))

\* datetime.strptime(s, "%Y-%m-%d").date(), for a text that parses
strptime(s) ==
    LET p == DateParts(s) IN <<NumVal(p[1]), NumVal(p[2]), NumVal(p[3])>>

\* ------------------------------------------------------- product variants
\* An object of class Electronics, Grocery or Clothing: cls is the class,
\* the other fields are the attributes set by the constructors.
Electronics(product_id, name, price, quantity_in_stock, warranty_years, brand) ==
    [cls |-> "Electronics", product_id |-> product_id, name |-> name,
     price |-> price, quantity_in_stock |-> quantity_in_stock,
     warranty_years |-> warranty_years, brand |-> brand]

\* Grocery.__init__ parses the expiry text; it raises ValueError unless
\* CanParse(expiry_date).
Grocery(product_id, name, price, quantity_in_stock, expiry_date) ==
    [cls |-> "Grocery", product_id |-> product_id, name |-> name,
     price |-> price, quantity_in_stock |-> quantity_in_stock,
     expiry_date |-> strptime(expiry_date)]

Clothing(product_id, name, price, quantity_in_stock, size, material) ==
    [cls |-> "Clothing", product_id |-> product_id, name |-> name,
     price |-> price, quantity_in_stock |-> quantity_in_stock,
     size |-> size, material |-> material]

\* Product.restock
restock(p, amount) ==
    [p EXCEPT !.quantity_in_stock = p.quantity_in_stock + amount]

\* mutant of sell_raises: the comparison is off by one
sell_raises_off_by_one(p, quantity) == quantity > p.quantity_in_stock + 1

\* Product.sell raises OutOfStockError
sell_raises(p, quantity) == quantity > p.quantity_in_stock

\* mutant of sell: the quantity is added, as in restock
sell_adds(p, quantity) ==
    [p EXCEPT !.quantity_in_stock = p.quantity_in_stock + quantity]

\* Product.sell, when it does not raise
sell(p, quantity) ==
    [p EXCEPT !.quantity_in_stock = p.quantity_in_stock - quantity]

\* mutant of get_total_value: + for *
get_total_value_plus(p) == p.price + p.quantity_in_stock

\* Product.get_total_value
get_total_value(p) == p.price * p.quantity_in_stock

\* mutant of is_expired: >= for >
is_expired_on_the_day(p, now) ==
    DateGreater(now, p.expiry_date) \/ now = p.expiry_date

\* Grocery.is_expired, with now the date of datetime.now()
is_expired(p, now) == DateGreater(now, p.expiry_date)

\* Product.to_dict
Product_to_dict(p) ==
    [type |-> p.cls, product_id |-> p.product_id, name |-> p.name,
     price |-> p.price, quantity_in_stock |-> p.quantity_in_stock]

\* dict.update: the keys of upd override those of base
update(base, upd) == upd @@ base

\* Electronics.to_dict / Grocery.to_dict / Clothing.to_dict
to_dict(p) ==
    IF p.cls = "Electronics"
    THEN update(Product_to_dict(p),
                [warranty_years |-> p.warranty_years, brand |-> p.brand])
    ELSE IF p.cls = "Grocery"
    THEN update(Product_to_dict(p), [expiry_date |-> isoformat(p.expiry_date)])
    ELSE update(Product_to_dict(p), [size |-> p.size, material |-> p.material])

\* ------------------------------------------------------------- inventory
\* Inventory._products: the ids that are keys of the map
Keys(ps) == {ps[i].product_id : i \in 1..Len(ps)}

\* self._products[product_id]
Index(ps, product_id) == CHOOSE i \in 1..Len(ps) : ps[i].product_id = product_id

Get(ps, product_id) == ps[Index(ps, product_id)]

\* del self._products[product_id]: the other entries keep their order
Del(ps, product_id) ==
    LET k == Index(ps, product_id)
    IN  [i \in 1..(Len(ps) - 1) |-> IF i < k THEN ps[i] ELSE ps[i + 1]]

\* mutant of add_raises: looks for the product, not for its id
add_raises_same_product(ps, p) == \E i \in 1..Len(ps) : ps[i] = p

\* Inventory.add_product raises DuplicateProductError
add_raises(ps, p) == p.product_id \in Keys(ps)

\* Inventory.add_product, when it does not raise: a new key goes last
add_product(ps, p) == Append(ps, p)

\* Inventory.remove_product
remove_product(ps, product_id) ==
    IF product_id \in Keys(ps) THEN Del(ps, product_id) ELSE ps

\* mutant of sell_product_raises: an id that is no key counts as stock 0
sell_product_raises_missing(ps, product_id, quantity) ==
    IF product_id \in Keys(ps)
    THEN sell_raises(Get(ps, product_id), quantity)
    ELSE quantity > 0

\* Inventory.sell_product raises OutOfStockError
sell_product_raises(ps, product_id, quantity) ==
    /\ product_id \in Keys(ps)
    /\ sell_raises(Get(ps, product_id), quantity)

\* Inventory.sell_product, when it does not raise
sell_product(ps, product_id, quantity) ==
    IF product_id \in Keys(ps)
    THEN [ps EXCEPT ![Index(ps, product_id)] = sell(@, quantity)]
    ELSE ps

\* Inventory.restock_product
restock_product(ps, product_id, quantity) ==
    IF product_id \in Keys(ps)
    THEN [ps EXCEPT ![Index(ps, product_id)] = restock(@, quantity)]
    ELSE ps

\* Inventory.total_inventory_value: sum(...) adds the values in map order
RECURSIVE total_inventory_value(_)
total_inventory_value(ps) ==
    IF Len(ps) = 0 THEN 0
    ELSE total_inventory_value(SubSeq(ps, 1, Len(ps) - 1))
         + get_total_value(ps[Len(ps)])

\* to_remove of Inventory.remove_expired_products
to_remove(ps, now) ==
    {ps[i].product_id : i \in {j \in 1..Len(ps) :
        ps[j].cls = "Grocery" /\ is_expired(ps[j], now)}}

RECURSIVE DelAll(_, _)
DelAll(ps, ids) ==
    IF ids = {} THEN ps
    ELSE LET pid == CHOOSE x \in ids : TRUE
         IN  DelAll(Del(ps, pid), ids \ {pid})

\* Inventory.remove_expired_products
remove_expired_products(ps, now) == DelAll(ps, to_remove(ps, now))

\* Inventory.save_to_file: the JSON array written to the file
save_to_file(ps) == [i \in 1..Len(ps) |-> to_dict(ps[i])]

\* ------------------------------------------------------------------ load
VariantFields(type) ==
    IF type = "Electronics" THEN {"warranty_years", "brand"}
    ELSE IF type = "Grocery" THEN {"expiry_date"}
    ELSE {"size", "material"}

BaseFields == {"product_id", "name", "price", "quantity_in_stock"}

\* the constructor call of the branch of load_from_file that item["type"] selects
Build(item) ==
    IF item.type = "Electronics"
    THEN Electronics(item.product_id, item.name, item.price,
                     item.quantity_in_stock, item.warranty_years, item.brand)
    ELSE IF item.type = "Grocery"
    THEN Grocery(item.product_id, item.name, item.price,
                 item.quantity_in_stock, item.expiry_date)
    ELSE Clothing(item.product_id, item.name, item.price,
                  item.quantity_in_stock, item.size, item.material)

\* What one round of the loop of load_from_file raises for item, with ps the
\* map so far: item["type"] is read outside the try block, so its KeyError
\* is not converted; the KeyError of any other field is.
item_raises(ps, item) ==
    IF "type" \notin DOMAIN item THEN "KeyError"
    ELSE IF item.type \notin {"Electronics", "Grocery", "Clothing"}
    THEN "InvalidProductDataError"
    ELSE IF ~((BaseFields \cup VariantFields(item.type)) \subseteq DOMAIN item)
    THEN "InvalidProductDataError"
    ELSE IF item.type = "Grocery" /\ ~CanParse(item.expiry_date)
    THEN "ValueError"
    ELSE IF add_raises(ps, Build(item)) THEN "DuplicateProductError"
    ELSE "none"

\* the loop of load_from_file from record i on
RECURSIVE load_items(_, _, _)
load_items(ps, data, i) ==
    IF i > Len(data) THEN [products |-> ps, err |-> "none"]
    ELSE LET e == item_raises(ps, data[i])
         IN  IF e # "none" THEN [products |-> ps, err |-> e]
             ELSE load_items(add_product(ps, Build(data[i])), data, i + 1)

\* mutant of clear: the map is not cleared
clear_nothing(ps) == ps

\* self._products.clear()
clear(ps) == <<>>

\* Inventory.load_from_file, for a file that opens and holds the array data
load_from_file(ps, data) == load_items(clear(ps), data, 1)

\* ------------------------------------------------------------ input sets
Ids == {"E1", "G1"}

\* expiry texts typed at the prompt: all of them parse
ExpiryInputs ==
    { <<"2", "0", "0", "0", "-", "0", "1", "-", "0", "1">>,
      <<"2", "0", "2", "6", "-", "1", "1", "-", "3">> }

\* the products the caller constructs and passes to add_product
NewProducts ==
    UNION { { Electronics(id, "Item", 100, q, 2, "Acme") : id \in Ids }
            \cup { Clothing(id, "Item", 7, q, "M", "Wool") : id \in Ids }
            \cup { Grocery(id, "Item", 3, q, x) : id \in Ids, x \in ExpiryInputs }
          : q \in 0..MaxQty }

\* quantities passed to sell_product and restock_product: int(input()) takes
\* any integer, negative ones included
Amounts == (-1)..MaxAmount

\* the inputs of the runs that also save and load
FewProducts ==
    { Electronics("E1", "Item", 100, MaxAmount, 2, "Acme"),
      Clothing("G1", "Item", 7, MaxAmount, "M", "Wool") }
    \cup { Grocery("G1", "Item", 3, MaxAmount, x) : x \in ExpiryInputs }

FewAmounts == {MaxAmount}

\* records of files written by hand or by another program
ForeignRecords ==
    { to_dict(Electronics("E1", "Item", 100, MaxAmount, 2, "Acme")),
      to_dict(Clothing("G1", "Item", 7, MaxAmount, "M", "Wool")),
      [type |-> "Grocery", product_id |-> "G1", name |-> "Item", price |-> 3,
       quantity_in_stock |-> 1,
       expiry_date |-> <<"2", "0", "2", "6", "-", "0", "2", "-", "3", "0">>],
      [type |-> "Toy", product_id |-> "G1", name |-> "Item", price |-> 3,
       quantity_in_stock |-> 1],
      [product_id |-> "G1", name |-> "Item", price |-> 3, quantity_in_stock |-> 1,
       size |-> "M", material |-> "Wool"],
      [type |-> "Electronics", product_id |-> "G1", name |-> "Item", price |-> 3,
       quantity_in_stock |-> 1, warranty_years |-> 2] }

RECURSIVE SeqsUpTo(_, _)
SeqsUpTo(S, n) ==
    IF n = 0 THEN {<<>>}
    ELSE LET R == SeqsUpTo(S, n - 1)
         IN  R \cup {Append(r, x) : r \in {t \in R : Len(t) = n - 1}, x \in S}

ForeignFiles == SeqsUpTo(ForeignRecords, MaxFileLen)

\* datetime.now().date() when the program starts, and the day after a date
StartDate == <<2026, 11, 3>>

NextDay(d) ==
    IF d[3] < DaysInMonth(d[1], d[2]) THEN <<d[1], d[2], d[3] + 1>>
    ELSE IF d[2] < 12 THEN <<d[1], d[2] + 1, 1>>
    ELSE <<d[1] + 1, 1, 1>>

RECURSIVE DayN(_)
DayN(n) == IF n = 0 THEN StartDate ELSE NextDay(DayN(n - 1))

\* no file of that name, and a file holding the JSON array data
NoFile == [exists |-> FALSE, data |-> <<>>]
FileOf(data) == [exists |-> TRUE, data |-> data]

\* the file does not come from save_to_file, and one written from the map ps
NoSave == [valid |-> FALSE, products |-> <<>>]
SaveOf(ps) == [valid |-> TRUE, products |-> ps]

\* ----------------------------------------------------------------- state
\* products: Inventory._products, in insertion order
\* file:     the file the program saves to and loads from
\* saved:    the map save_to_file wrote the file from, if it wrote it
\* today:    datetime.now().date()
\* last:     the last call, its arguments and the exception it raised; qty
\*           is the quantity passed to the call, for remove_expired the
\*           number of ids in to_remove, for load the size of the map
\*           when it was called
Call(op, pid, qty, err) == [op |-> op, pid |-> pid, qty |-> qty, err |-> err]

Init ==
    /\ products = <<>>
    /\ file = NoFile
    /\ saved = NoSave
    /\ today = StartDate
    /\ last = Call("init", "", 0, "none")

\* choice 1 of main: inventory.add_product(product)
AddProduct(Inputs) ==
    \E p \in Inputs :
        /\ products' = IF add_raises(products, p) THEN products
                       ELSE add_product(products, p)
        /\ last' = Call("add", p.product_id, p.quantity_in_stock,
                        IF add_raises(products, p) THEN "DuplicateProductError"
                        ELSE "none")
        /\ UNCHANGED <<file, saved, today>>

\* Inventory.remove_product
RemoveProduct ==
    \E id \in Ids :
        /\ products' = remove_product(products, id)
        /\ last' = Call("remove", id, 0, "none")
        /\ UNCHANGED <<file, saved, today>>

\* the stock stays within the bounds of the model
InRange(ps) ==
    \A i \in 1..Len(ps) : ps[i].quantity_in_stock \in (-1)..MaxQty

\* choice 2 of main: inventory.sell_product(pid, qty)
SellProduct(Quantities) ==
    \E id \in Ids, q \in Quantities :
        /\ products' = IF sell_product_raises(products, id, q) THEN products
                       ELSE sell_product(products, id, q)
        /\ InRange(products')
        /\ last' = Call("sell", id, q,
                        IF sell_product_raises(products, id, q)
                        THEN "OutOfStockError" ELSE "none")
        /\ UNCHANGED <<file, saved, today>>

\* choice 5 of main: inventory.restock_product(pid, qty)
RestockProduct(Quantities) ==
    \E id \in Ids, q \in Quantities :
        /\ products' = restock_product(products, id, q)
        /\ InRange(products')
        /\ last' = Call("restock", id, q, "none")
        /\ UNCHANGED <<file, saved, today>>

\* choice 6 of main: inventory.remove_expired_products()
RemoveExpired ==
    /\ products' = remove_expired_products(products, today)
    /\ last' = Call("remove_expired", "",
                    Cardinality(to_remove(products, today)), "none")
    /\ UNCHANGED <<file, saved, today>>

\* choice 7 of main: inventory.save_to_file(filename)
Save ==
    /\ file' = FileOf(save_to_file(products))
    /\ saved' = SaveOf(products)
    /\ last' = Call("save", "", 0, "none")
    /\ UNCHANGED <<products, today>>

\* choice 8 of main: inventory.load_from_file(filename); open() raises
\* before the map is touched when there is no file
Load ==
    /\ IF ~file.exists
       THEN /\ products' = products
            /\ last' = Call("load", "", Len(products), "FileNotFoundError")
       ELSE /\ products' = load_from_file(products, file.data).products
            /\ last' = Call("load", "", Len(products),
                            load_from_file(products, file.data).err)
    /\ UNCHANGED <<file, saved, today>>

\* the file is replaced from outside the program
WriteFile ==
    \E f \in ForeignFiles :
        /\ file' = FileOf(f)
        /\ saved' = NoSave
        /\ last' = Call("write", "", 0, "none")
        /\ UNCHANGED <<products, today>>

\* midnight passes
Tick ==
    /\ \E n \in 0..(MaxTicks - 1) : today = DayN(n)
    /\ today' = NextDay(today)
    /\ last' = Call("tick", "", 0, "none")
    /\ UNCHANGED <<products, file, saved>>

\* The stock operations of the inventory, over all the input sets.
Next ==
    \/ AddProduct(NewProducts)
    \/ RemoveProduct
    \/ SellProduct(Amounts)
    \/ RestockProduct(Amounts)
    \/ RemoveExpired
    \/ Tick

Spec == Init /\ [][Next]_vars

\* Every operation of the inventory, persistence included, over a few
\* products and quantities, on one day.
NextIO ==
    \/ AddProduct(FewProducts)
    \/ RemoveProduct
    \/ SellProduct(FewAmounts)
    \/ RestockProduct(FewAmounts)
    \/ RemoveExpired
    \/ Save
    \/ Load
    \/ WriteFile

SpecIO == Init /\ [][NextIO]_vars

\* ---------------------------------------------------------------- claims
Stock(ps, id) == Get(ps, id).quantity_in_stock

\* C1: in every reachable state the quantity_in_stock of every product is
\* non-negative, whatever integers were passed to sell and restock.
C1_StockNonNegative ==
    \A i \in 1..Len(products) : products[i].quantity_in_stock >= 0

\* C2: sell(p, q) on a product p of the inventory with q greater than its
\* stock raises OutOfStockError and leaves the whole inventory as it was.
C2_SellTooMuchFails ==
    [][(/\ last'.op = "sell"
        /\ last'.pid \in Keys(products)
        /\ last'.qty > Stock(products, last'.pid))
       => (last'.err = "OutOfStockError" /\ products' = products)]_vars

C2_Witness ==
    /\ last.op = "sell"
    /\ last.err = "OutOfStockError"
    /\ last.pid \in Keys(products)
    /\ last.qty > Stock(products, last.pid)

\* C3: adding a product whose id is already a key raises
\* DuplicateProductError and leaves the inventory unchanged: same ids, and
\* the product under that id is the original one with all its fields.
C3_DuplicateAddFails ==
    [][(last'.op = "add" /\ last'.pid \in Keys(products))
       => (last'.err = "DuplicateProductError" /\ products' = products)]_vars

C3_Witness ==
    /\ last.op = "add"
    /\ last.err = "DuplicateProductError"
    /\ last.pid \in Keys(products)
    /\ Stock(products, last.pid) # last.qty

\* C7: sell(p, q) on a product p of the inventory with q at most its stock
\* succeeds; the stock of p becomes the old stock minus q, its total value
\* price * (old stock - q), and nothing else in the inventory changes.
C7_SellDecrements ==
    [][(/\ last'.op = "sell"
        /\ last'.pid \in Keys(products)
        /\ last'.qty <= Stock(products, last'.pid))
       => (/\ last'.err = "none"
           /\ products' = [products EXCEPT
                  ![Index(products, last'.pid)].quantity_in_stock = @ - last'.qty]
           /\ get_total_value(Get(products', last'.pid))
                = Get(products, last'.pid).price
                    * (Stock(products, last'.pid) - last'.qty))]_vars

C7_Witness ==
    /\ last.op = "sell"
    /\ last.err = "none"
    /\ last.qty > 0
    /\ Len(products) = 2
    /\ last.pid \in Keys(products)
    /\ Stock(products, last.pid) > 0

\* C8: remove, sell and restock with an id that is not a key raise nothing
\* and leave the inventory unchanged, whatever the quantity.
C8_MissingIdNoOp ==
    [][(/\ last'.op \in {"remove", "sell", "restock"}
        /\ last'.pid \notin Keys(products))
       => (last'.err = "none" /\ products' = products)]_vars

C8_Witness ==
    /\ last.op = "sell"
    /\ last.err = "none"
    /\ last.pid \notin Keys(products)
    /\ Len(products) = 1
    /\ last.qty > products[1].quantity_in_stock

\* a date strictly before another, by the day number yyyymmdd
Before(a, b) ==
    a[1] * 10000 + a[2] * 100 + a[3] < b[1] * 10000 + b[2] * 100 + b[3]

Stays(p, now) == ~(p.cls = "Grocery" /\ Before(p.expiry_date, now))

\* C6: remove_expired removes exactly the Grocery products whose
\* expiry_date is strictly before today: those are gone, every other
\* product is still there, unchanged and in the same order.
C6_SweepRemovesExpiredGroceries ==
    [][(last'.op = "remove_expired")
       => products' = SelectSeq(products, LAMBDA p : Stays(p, today))]_vars

C6_Witness ==
    /\ last.op = "remove_expired"
    /\ last.qty = 1
    /\ Len(products) = 1
    /\ products[1].cls = "Grocery"
    /\ products[1].expiry_date = today

RECURSIVE SumOfValues(_, _)
SumOfValues(ps, ids) ==
    IF ids = {} THEN 0
    ELSE LET id == CHOOSE x \in ids : TRUE
         IN  Get(ps, id).price * Get(ps, id).quantity_in_stock
             + SumOfValues(ps, ids \ {id})

\* C9: in every reachable state total_value() is the sum of
\* price * quantity_in_stock over exactly the products in the inventory,
\* and 0 for the empty inventory.
C9_TotalValueIsSum ==
    /\ total_inventory_value(products) = SumOfValues(products, Keys(products))
    /\ (products = <<>>) => (total_inventory_value(products) = 0)

C9_Witness ==
    /\ last.op = "load"
    /\ last.err = "none"
    /\ Len(products) = 2
    /\ products[1].price # products[2].price
    /\ \A i \in 1..2 : products[i].quantity_in_stock > 0

\* C4: loading a file that save_to_file wrote, into whatever inventory,
\* succeeds and yields the saved inventory: same ids, same class and
\* field values for each id, in the same order.
C4_RoundTrip ==
    (last.op = "load" /\ saved.valid)
        => (last.err = "none" /\ products = saved.products)

C4_Witness ==
    /\ last.op = "load"
    /\ saved.valid
    /\ last.qty = 1
    /\ Len(products) = 2
    /\ products[1].cls = "Grocery"
    /\ products[2].cls = "Electronics"
    /\ products[1].expiry_date = <<2026, 11, 3>>

Tags == {"Electronics", "Grocery", "Clothing"}

\* the record lacks its type, or a field the persisted format requires
LacksField(item) ==
    \/ "type" \notin DOMAIN item
    \/ \E f \in {"product_id", "name", "price", "quantity_in_stock"} :
            f \notin DOMAIN item
    \/ item.type = "Electronics"
          /\ \E f \in {"warranty_years", "brand"} : f \notin DOMAIN item
    \/ item.type = "Grocery" /\ "expiry_date" \notin DOMAIN item
    \/ item.type = "Clothing"
          /\ \E f \in {"size", "material"} : f \notin DOMAIN item

UnknownTag(item) == "type" \in DOMAIN item /\ item.type \notin Tags

\* record k has the id of an earlier record of the same file
RepeatsId(data, k) ==
    /\ "product_id" \in DOMAIN data[k]
    /\ \E j \in 1..(k - 1) :
          "product_id" \in DOMAIN data[j]
          /\ data[j].product_id = data[k].product_id

\* record k is a Grocery whose expiry text is no date
BadDate(item) ==
    /\ ~LacksField(item)
    /\ item.type = "Grocery"
    /\ ~CanParse(item.expiry_date)

Offends(data, k) ==
    UnknownTag(data[k]) \/ LacksField(data[k]) \/ BadDate(data[k])
        \/ RepeatsId(data, k)

\* the first record of the file that cannot be loaded, 0 if there is none
FirstOffender(data) ==
    IF \E k \in 1..Len(data) : Offends(data, k)
    THEN CHOOSE k \in 1..Len(data) :
            Offends(data, k) /\ \A j \in 1..(k - 1) : ~Offends(data, j)
    ELSE 0

\* C5: load raises InvalidProductDataError at a record whose tag is not one
\* of the three variants or that lacks a required field (type included), and
\* adds no product built from that record.
C5_BadRecordIsInvalidProductData ==
    (/\ last.op = "load"
     /\ file.exists
     /\ FirstOffender(file.data) > 0
     /\ LET r == file.data[FirstOffender(file.data)]
        IN  UnknownTag(r) \/ LacksField(r))
    => (/\ last.err = "InvalidProductDataError"
        /\ Len(products) = FirstOffender(file.data) - 1)

\* C10: when load of a file that opens fails at its k-th record, the
\* inventory holds exactly the products of records 1..k-1 in file order,
\* whatever it held before; DuplicateProductError is raised only for an id
\* that repeats one of an earlier record of the file.
C10_PartialLoad ==
    (last.op = "load" /\ file.exists)
    => LET k == FirstOffender(file.data)
       IN  /\ (last.err = "none") <=> (k = 0)
           /\ k > 0 =>
                /\ products = [j \in 1..(k - 1) |-> Build(file.data[j])]
                /\ (last.err = "DuplicateProductError")
                     <=> (/\ RepeatsId(file.data, k)
                          /\ ~UnknownTag(file.data[k])
                          /\ ~LacksField(file.data[k])
                          /\ ~BadDate(file.data[k]))

C10_Witness ==
    /\ last.op = "load"
    /\ last.err = "DuplicateProductError"
    /\ last.qty = 2
    /\ Len(products) = 1
    /\ FirstOffender(file.data) = 2

====
